---- MODULE Spec2Model ----
(***************************************************************************)
(* A model of the crawlerverse Python SDK game runner (runner.run_game),   *)
(* together with the error mapping of the transport it drives              *)
(* (_base_client.map_error_response, client._request).                     *)
(*                                                                         *)
(* One behaviour of Spec is one invocation of run_game.  The decision      *)
(* function (agent_fn), the step callback (on_step) and the remote service *)
(* are the environment: what they return or raise is chosen with \E from   *)
(* small sets.  The variables in the first group are the locals of         *)
(* run_game; the variables in the second group record what the runner did  *)
(* to its collaborators (calls made and their arguments).                  *)
(***************************************************************************)
EXTENDS Integers, Sequences, FiniteSets, TLC

VARIABLES
    runner,               \* which runner runs: run_game or async_run_game
    model_id,             \* argument model_id, NoneStr when not given
    create_args,          \* what client.games.create was last called with
    game_id_arg,          \* the game_id keyword argument (None in fresh mode)
    max_invalid_actions,  \* the max_invalid_actions keyword argument
    on_step_set,          \* on_step is not None
    pc,                   \* position of run_game
    game_id,              \* local game_id
    spectator_url,        \* local spectator_url
    observation,          \* local observation: the current Observation slot
    consecutive_invalid,  \* local consecutive_invalid
    action,               \* local action: what agent_fn returned last
    result,               \* local result: the last ActionResponse
    pending,              \* the RateLimitError bound to e while sleeping
    returned,             \* the GameResult returned, None until then
    raised,               \* the exception that left run_game, None until then
    n_get,                \* calls of client.games.get
    n_create,             \* calls of client.games.create
    n_agent,              \* calls of agent_fn
    n_submit,             \* calls of client.games.action
    n_on_step,            \* calls of on_step
    n_sleep,              \* calls of time.sleep
    agent_arg,            \* argument of the last agent_fn call
    submit_args,          \* arguments of the last client.games.action call
    on_step_args,         \* arguments of the last on_step call
    sleep_arg,            \* argument of the last time.sleep call
    last_response,        \* what the last transport call answered
    first_obs,            \* the Observation the run started from
    last_outcome,         \* the Outcome the service sent last (in a game
                          \* state, an action response or a game-over
                          \* error), None until one
    n_success,            \* submits answered with a decoded ActionResponse
    invalid_run,          \* invalid-action rejections since the last success
    thrown,               \* what agent_fn or on_step raised, None until then
    iter_invalid,         \* consecutive_invalid when agent_fn was last called
    n_stored,             \* accepted actions whose Observation was stored
    client,               \* client layer: the constructed CrawlerClient
    n_requests,           \* client layer: HTTP requests sent so far
    fn_in,                \* client layer: the function applied and its inputs
    fn_out                \* client layer: what it returned or raised

vars == <<runner, model_id, create_args, game_id_arg, max_invalid_actions,
          on_step_set, pc, game_id,
          spectator_url, observation, consecutive_invalid, action, result,
          pending, returned, raised, n_get, n_create, n_agent, n_submit,
          n_on_step, n_sleep, agent_arg, submit_args, on_step_args,
          sleep_arg, last_response, first_obs, last_outcome,
          n_success, invalid_run, thrown, iter_invalid, n_stored, client,
          n_requests, fn_in, fn_out>>

(***************************************************************************)
(* Bounds of the model.                                                    *)
(***************************************************************************)
MaxCalls == 3          \* agent_fn is called at most this often in a run
MaxThreshold == 2      \* max_invalid_actions ranges over 0..MaxThreshold
MaxTurn == 2           \* Observation.turn ranges over 1..MaxTurn

\* Python's None where a record (an object) is expected, and where a string is.
None == [type |-> "None"]

NoneStr == "<None>"

(***************************************************************************)
(* Data model (models.py).                                                 *)
(***************************************************************************)
Observations == [turn : 1..MaxTurn]

InProgressOutcome == [status |-> "in_progress"]

CompletedOutcome(r, f, t) ==
    [status |-> "completed", result |-> r, floor |-> f, turns |-> t]

AbandonedOutcome(r, f, t) ==
    [status |-> "abandoned", reason |-> r, floor |-> f, turns |-> t]

TerminalOutcomes ==
    { CompletedOutcome("victory", 5, 100),
      CompletedOutcome("death", 3, 47),
      AbandonedOutcome("timeout", 1, 5) }

Outcomes == {InProgressOutcome} \cup TerminalOutcomes

\* A response body's "outcome" member that is a non-empty object but decodes
\* to no Outcome variant.
MalformedOutcome == [status |-> "bogus"]

\* isinstance(o, InProgressOutcome)
IsInProgress_NotCompleted(o) == o.status # "completed"

IsInProgress(o) == o.status = "in_progress"

\* parse_outcome: the decoded Outcome, or the pydantic ValidationError the
\* TypeAdapter raises.
parse_outcome(data) ==
    IF data \in Outcomes
    THEN [ok |-> TRUE, value |-> data]
    ELSE [ok |-> FALSE, error |-> [type |-> "pydantic.ValidationError"]]

\* GameResult(game_id=..., spectator_url=..., outcome=...): the outcome field
\* is declared CompletedOutcome | AbandonedOutcome, so constructing it with an
\* InProgressOutcome raises pydantic's ValidationError.
GameResult_Unvalidated(gid, url, o) ==
    [ok |-> TRUE,
     value |-> [game_id |-> gid, spectator_url |-> url, outcome |-> o]]

GameResult(gid, url, o) ==
    IF o.status \in {"completed", "abandoned"}
    THEN [ok |-> TRUE,
          value |-> [game_id |-> gid, spectator_url |-> url, outcome |-> o]]
    ELSE [ok |-> FALSE, error |-> [type |-> "pydantic.ValidationError"]]

Actions == {"wait", "move"}

GameIds == {"game-1", "existing-game"}

SpectatorUrls == {"https://crawlerver.se/spectate/game-1"}

(***************************************************************************)
(* Transport: HTTP responses and their classification                      *)
(* (_base_client.py, client.py, exceptions.py).                            *)
(***************************************************************************)

\* A header that is absent, or present with its text as a sequence of
\* characters.
NoHeader == [present |-> FALSE]

Header(chars) == [present |-> TRUE, text |-> chars]

\* The characters of a header text.  A text is a sequence of characters;
\* a character is written as itself ("2", " ", "\t") or by its code point
\* ("U+0663" is ARABIC-INDIC DIGIT THREE, "U+000B" is the vertical tab).
\*
\* The characters int() reads as decimal digits (every character of Unicode
\* category Nd), grouped by value: DigitChars[v + 1] are the digits whose
\* value is v.
DigitChars ==
    <<
    { "0", "U+0030", "U+0660", "U+06F0", "U+07C0", "U+0966", "U+09E6",
      "U+0A66", "U+0AE6", "U+0B66", "U+0BE6", "U+0C66", "U+0CE6", "U+0D66",
      "U+0DE6", "U+0E50", "U+0ED0", "U+0F20", "U+1040", "U+1090", "U+17E0",
      "U+1810", "U+1946", "U+19D0", "U+1A80", "U+1A90", "U+1B50", "U+1BB0",
      "U+1C40", "U+1C50", "U+A620", "U+A8D0", "U+A900", "U+A9D0", "U+A9F0",
      "U+AA50", "U+ABF0", "U+FF10", "U+104A0", "U+10D30", "U+11066",
      "U+110F0", "U+11136", "U+111D0", "U+112F0", "U+11450", "U+114D0",
      "U+11650", "U+116C0", "U+11730", "U+118E0", "U+11950", "U+11C50",
      "U+11D50", "U+11DA0", "U+16A60", "U+16AC0", "U+16B50", "U+1D7CE",
      "U+1D7D8", "U+1D7E2", "U+1D7EC", "U+1D7F6", "U+1E140", "U+1E2F0",
      "U+1E950", "U+1FBF0" },
    { "1", "U+0031", "U+0661", "U+06F1", "U+07C1", "U+0967", "U+09E7",
      "U+0A67", "U+0AE7", "U+0B67", "U+0BE7", "U+0C67", "U+0CE7", "U+0D67",
      "U+0DE7", "U+0E51", "U+0ED1", "U+0F21", "U+1041", "U+1091", "U+17E1",
      "U+1811", "U+1947", "U+19D1", "U+1A81", "U+1A91", "U+1B51", "U+1BB1",
      "U+1C41", "U+1C51", "U+A621", "U+A8D1", "U+A901", "U+A9D1", "U+A9F1",
      "U+AA51", "U+ABF1", "U+FF11", "U+104A1", "U+10D31", "U+11067",
      "U+110F1", "U+11137", "U+111D1", "U+112F1", "U+11451", "U+114D1",
      "U+11651", "U+116C1", "U+11731", "U+118E1", "U+11951", "U+11C51",
      "U+11D51", "U+11DA1", "U+16A61", "U+16AC1", "U+16B51", "U+1D7CF",
      "U+1D7D9", "U+1D7E3", "U+1D7ED", "U+1D7F7", "U+1E141", "U+1E2F1",
      "U+1E951", "U+1FBF1" },
    { "2", "U+0032", "U+0662", "U+06F2", "U+07C2", "U+0968", "U+09E8",
      "U+0A68", "U+0AE8", "U+0B68", "U+0BE8", "U+0C68", "U+0CE8", "U+0D68",
      "U+0DE8", "U+0E52", "U+0ED2", "U+0F22", "U+1042", "U+1092", "U+17E2",
      "U+1812", "U+1948", "U+19D2", "U+1A82", "U+1A92", "U+1B52", "U+1BB2",
      "U+1C42", "U+1C52", "U+A622", "U+A8D2", "U+A902", "U+A9D2", "U+A9F2",
      "U+AA52", "U+ABF2", "U+FF12", "U+104A2", "U+10D32", "U+11068",
      "U+110F2", "U+11138", "U+111D2", "U+112F2", "U+11452", "U+114D2",
      "U+11652", "U+116C2", "U+11732", "U+118E2", "U+11952", "U+11C52",
      "U+11D52", "U+11DA2", "U+16A62", "U+16AC2", "U+16B52", "U+1D7D0",
      "U+1D7DA", "U+1D7E4", "U+1D7EE", "U+1D7F8", "U+1E142", "U+1E2F2",
      "U+1E952", "U+1FBF2" },
    { "3", "U+0033", "U+0663", "U+06F3", "U+07C3", "U+0969", "U+09E9",
      "U+0A69", "U+0AE9", "U+0B69", "U+0BE9", "U+0C69", "U+0CE9", "U+0D69",
      "U+0DE9", "U+0E53", "U+0ED3", "U+0F23", "U+1043", "U+1093", "U+17E3",
      "U+1813", "U+1949", "U+19D3", "U+1A83", "U+1A93", "U+1B53", "U+1BB3",
      "U+1C43", "U+1C53", "U+A623", "U+A8D3", "U+A903", "U+A9D3", "U+A9F3",
      "U+AA53", "U+ABF3", "U+FF13", "U+104A3", "U+10D33", "U+11069",
      "U+110F3", "U+11139", "U+111D3", "U+112F3", "U+11453", "U+114D3",
      "U+11653", "U+116C3", "U+11733", "U+118E3", "U+11953", "U+11C53",
      "U+11D53", "U+11DA3", "U+16A63", "U+16AC3", "U+16B53", "U+1D7D1",
      "U+1D7DB", "U+1D7E5", "U+1D7EF", "U+1D7F9", "U+1E143", "U+1E2F3",
      "U+1E953", "U+1FBF3" },
    { "4", "U+0034", "U+0664", "U+06F4", "U+07C4", "U+096A", "U+09EA",
      "U+0A6A", "U+0AEA", "U+0B6A", "U+0BEA", "U+0C6A", "U+0CEA", "U+0D6A",
      "U+0DEA", "U+0E54", "U+0ED4", "U+0F24", "U+1044", "U+1094", "U+17E4",
      "U+1814", "U+194A", "U+19D4", "U+1A84", "U+1A94", "U+1B54", "U+1BB4",
      "U+1C44", "U+1C54", "U+A624", "U+A8D4", "U+A904", "U+A9D4", "U+A9F4",
      "U+AA54", "U+ABF4", "U+FF14", "U+104A4", "U+10D34", "U+1106A",
      "U+110F4", "U+1113A", "U+111D4", "U+112F4", "U+11454", "U+114D4",
      "U+11654", "U+116C4", "U+11734", "U+118E4", "U+11954", "U+11C54",
      "U+11D54", "U+11DA4", "U+16A64", "U+16AC4", "U+16B54", "U+1D7D2",
      "U+1D7DC", "U+1D7E6", "U+1D7F0", "U+1D7FA", "U+1E144", "U+1E2F4",
      "U+1E954", "U+1FBF4" },
    { "5", "U+0035", "U+0665", "U+06F5", "U+07C5", "U+096B", "U+09EB",
      "U+0A6B", "U+0AEB", "U+0B6B", "U+0BEB", "U+0C6B", "U+0CEB", "U+0D6B",
      "U+0DEB", "U+0E55", "U+0ED5", "U+0F25", "U+1045", "U+1095", "U+17E5",
      "U+1815", "U+194B", "U+19D5", "U+1A85", "U+1A95", "U+1B55", "U+1BB5",
      "U+1C45", "U+1C55", "U+A625", "U+A8D5", "U+A905", "U+A9D5", "U+A9F5",
      "U+AA55", "U+ABF5", "U+FF15", "U+104A5", "U+10D35", "U+1106B",
      "U+110F5", "U+1113B", "U+111D5", "U+112F5", "U+11455", "U+114D5",
      "U+11655", "U+116C5", "U+11735", "U+118E5", "U+11955", "U+11C55",
      "U+11D55", "U+11DA5", "U+16A65", "U+16AC5", "U+16B55", "U+1D7D3",
      "U+1D7DD", "U+1D7E7", "U+1D7F1", "U+1D7FB", "U+1E145", "U+1E2F5",
      "U+1E955", "U+1FBF5" },
    { "6", "U+0036", "U+0666", "U+06F6", "U+07C6", "U+096C", "U+09EC",
      "U+0A6C", "U+0AEC", "U+0B6C", "U+0BEC", "U+0C6C", "U+0CEC", "U+0D6C",
      "U+0DEC", "U+0E56", "U+0ED6", "U+0F26", "U+1046", "U+1096", "U+17E6",
      "U+1816", "U+194C", "U+19D6", "U+1A86", "U+1A96", "U+1B56", "U+1BB6",
      "U+1C46", "U+1C56", "U+A626", "U+A8D6", "U+A906", "U+A9D6", "U+A9F6",
      "U+AA56", "U+ABF6", "U+FF16", "U+104A6", "U+10D36", "U+1106C",
      "U+110F6", "U+1113C", "U+111D6", "U+112F6", "U+11456", "U+114D6",
      "U+11656", "U+116C6", "U+11736", "U+118E6", "U+11956", "U+11C56",
      "U+11D56", "U+11DA6", "U+16A66", "U+16AC6", "U+16B56", "U+1D7D4",
      "U+1D7DE", "U+1D7E8", "U+1D7F2", "U+1D7FC", "U+1E146", "U+1E2F6",
      "U+1E956", "U+1FBF6" },
    { "7", "U+0037", "U+0667", "U+06F7", "U+07C7", "U+096D", "U+09ED",
      "U+0A6D", "U+0AED", "U+0B6D", "U+0BED", "U+0C6D", "U+0CED", "U+0D6D",
      "U+0DED", "U+0E57", "U+0ED7", "U+0F27", "U+1047", "U+1097", "U+17E7",
      "U+1817", "U+194D", "U+19D7", "U+1A87", "U+1A97", "U+1B57", "U+1BB7",
      "U+1C47", "U+1C57", "U+A627", "U+A8D7", "U+A907", "U+A9D7", "U+A9F7",
      "U+AA57", "U+ABF7", "U+FF17", "U+104A7", "U+10D37", "U+1106D",
      "U+110F7", "U+1113D", "U+111D7", "U+112F7", "U+11457", "U+114D7",
      "U+11657", "U+116C7", "U+11737", "U+118E7", "U+11957", "U+11C57",
      "U+11D57", "U+11DA7", "U+16A67", "U+16AC7", "U+16B57", "U+1D7D5",
      "U+1D7DF", "U+1D7E9", "U+1D7F3", "U+1D7FD", "U+1E147", "U+1E2F7",
      "U+1E957", "U+1FBF7" },
    { "8", "U+0038", "U+0668", "U+06F8", "U+07C8", "U+096E", "U+09EE",
      "U+0A6E", "U+0AEE", "U+0B6E", "U+0BEE", "U+0C6E", "U+0CEE", "U+0D6E",
      "U+0DEE", "U+0E58", "U+0ED8", "U+0F28", "U+1048", "U+1098", "U+17E8",
      "U+1818", "U+194E", "U+19D8", "U+1A88", "U+1A98", "U+1B58", "U+1BB8",
      "U+1C48", "U+1C58", "U+A628", "U+A8D8", "U+A908", "U+A9D8", "U+A9F8",
      "U+AA58", "U+ABF8", "U+FF18", "U+104A8", "U+10D38", "U+1106E",
      "U+110F8", "U+1113E", "U+111D8", "U+112F8", "U+11458", "U+114D8",
      "U+11658", "U+116C8", "U+11738", "U+118E8", "U+11958", "U+11C58",
      "U+11D58", "U+11DA8", "U+16A68", "U+16AC8", "U+16B58", "U+1D7D6",
      "U+1D7E0", "U+1D7EA", "U+1D7F4", "U+1D7FE", "U+1E148", "U+1E2F8",
      "U+1E958", "U+1FBF8" },
    { "9", "U+0039", "U+0669", "U+06F9", "U+07C9", "U+096F", "U+09EF",
      "U+0A6F", "U+0AEF", "U+0B6F", "U+0BEF", "U+0C6F", "U+0CEF", "U+0D6F",
      "U+0DEF", "U+0E59", "U+0ED9", "U+0F29", "U+1049", "U+1099", "U+17E9",
      "U+1819", "U+194F", "U+19D9", "U+1A89", "U+1A99", "U+1B59", "U+1BB9",
      "U+1C49", "U+1C59", "U+A629", "U+A8D9", "U+A909", "U+A9D9", "U+A9F9",
      "U+AA59", "U+ABF9", "U+FF19", "U+104A9", "U+10D39", "U+1106F",
      "U+110F9", "U+1113F", "U+111D9", "U+112F9", "U+11459", "U+114D9",
      "U+11659", "U+116C9", "U+11739", "U+118E9", "U+11959", "U+11C59",
      "U+11D59", "U+11DA9", "U+16A69", "U+16AC9", "U+16B59", "U+1D7D7",
      "U+1D7E1", "U+1D7EB", "U+1D7F5", "U+1D7FF", "U+1E149", "U+1E2F9",
      "U+1E959", "U+1FBF9" }
    >>

Digits == UNION {DigitChars[i] : i \in 1..10}

DigitValue(c) == CHOOSE v \in 0..9 : c \in DigitChars[v + 1]

AllDigits(s) == Len(s) > 0 /\ \A i \in 1..Len(s) : s[i] \in Digits

RECURSIVE DigitsValue(_)
DigitsValue(s) ==
    IF s = <<>> THEN 0
    ELSE 10 * DigitsValue(SubSeq(s, 1, Len(s) - 1)) + DigitValue(s[Len(s)])

\* The characters int() strips from both ends of its argument (Unicode
\* whitespace).
Whitespace ==
    { " ", "\t", "\n", "\r", "\f", "U+0009", "U+000A", "U+000B", "U+000C",
      "U+000D", "U+0020", "U+0085", "U+00A0", "U+1680", "U+2000", "U+2001",
      "U+2002", "U+2003", "U+2004", "U+2005", "U+2006", "U+2007", "U+2008",
      "U+2009", "U+200A", "U+2028", "U+2029", "U+202F", "U+205F", "U+3000" }

RECURSIVE StripLeft(_)
StripLeft(s) ==
    IF s # <<>> /\ s[1] \in Whitespace THEN StripLeft(Tail(s)) ELSE s

RECURSIVE StripRight(_)
StripRight(s) ==
    IF s # <<>> /\ s[Len(s)] \in Whitespace
    THEN StripRight(SubSeq(s, 1, Len(s) - 1))
    ELSE s

\* The sign and separator characters of int(), each written as itself or by
\* its code point.
Minus == {"-", "U+002D"}

Plus == {"+", "U+002B"}

Underscore == {"_", "U+005F"}

\* Digits with single underscores between them: "10", "1_0", not "_1",
\* "1_", "1__0".
IsDigitGroup(s) ==
    /\ Len(s) > 0
    /\ s[1] \in Digits
    /\ s[Len(s)] \in Digits
    /\ \A i \in 1..Len(s) : s[i] \in Digits \cup Underscore
    /\ \A i \in 1..(Len(s) - 1) :
          ~(s[i] \in Underscore /\ s[i + 1] \in Underscore)

IsDigit(c) == c \in Digits

DigitGroupValue(s) == DigitsValue(SelectSeq(s, IsDigit))

\* int(text), base 10: surrounding whitespace is stripped, then an optional
\* sign, then digits with single underscores allowed between them; any other
\* text raises ValueError.  (Texts stay far below the 4300 digits from
\* which int() refuses to convert.)
int(s) ==
    LET t == StripRight(StripLeft(s)) IN
    IF IsDigitGroup(t) THEN [ok |-> TRUE, value |-> DigitGroupValue(t)]
    ELSE IF Len(t) > 1 /\ t[1] \in Minus /\ IsDigitGroup(Tail(t))
    THEN [ok |-> TRUE, value |-> 0 - DigitGroupValue(Tail(t))]
    ELSE IF Len(t) > 1 /\ t[1] \in Plus /\ IsDigitGroup(Tail(t))
    THEN [ok |-> TRUE, value |-> DigitGroupValue(Tail(t))]
    ELSE [ok |-> FALSE, error |-> [type |-> "ValueError", origin |-> "int"]]

\* The default of headers.get("retry-after", "60")
DefaultRetryAfter == <<"6", "0">>

\* headers.get("retry-after", "60")
RetryAfterText(headers) ==
    IF headers.retry_after.present THEN headers.retry_after.text
    ELSE DefaultRetryAfter

\* A decoded JSON object body and the members the client reads from it;
\* NoneStr and None stand for a member that is absent.
JsonObject(e, o, c, d) ==
    [kind |-> "object", error |-> e, outcome |-> o, code |-> c, details |-> d]

\* A decoded JSON body that is not an object (here a list).
JsonArray == [kind |-> "array"]

\* response.json(): the decoded body, or the ValueError (JSONDecodeError) of
\* a body that is not JSON.
response_json(response) ==
    IF response.decodes
    THEN [ok |-> TRUE, value |-> response.body]
    ELSE [ok |-> FALSE, error |-> [type |-> "ValueError", origin |-> "json"]]

\* body.get(...): every type but dict lacks the method.
HasGet(body) == body.kind = "object"

\* body.get("error", "Unknown error")
Message(body) == IF body.error = NoneStr THEN "Unknown error" ELSE body.error

\* body.get("code", "UNKNOWN")
Code(body) == IF body.code = NoneStr THEN "UNKNOWN" ELSE body.code

\* An "outcome" member that is present but an empty object.
EmptyPayload == [empty |-> TRUE]

\* if outcome_data: an absent member, null and an empty object are falsy.
Truthy(outcome_data) == outcome_data # None /\ outcome_data # EmptyPayload

\* map_error_response: the exception it raises.
map_error_response(status_code, body, headers) ==
    IF ~HasGet(body)
    THEN [type |-> "AttributeError", origin |-> "body.get"]
    ELSE
    LET message == Message(body) IN
    CASE status_code = 400 ->
           [type |-> "ValidationError", status_code |-> 400,
            message |-> message, details |-> body.details]
      [] status_code = 401 ->
           [type |-> "AuthenticationError", status_code |-> 401,
            message |-> message]
      [] status_code = 403 ->
           [type |-> "ForbiddenError", status_code |-> 403,
            message |-> message]
      [] status_code = 404 ->
           [type |-> "NotFoundError", status_code |-> 404,
            message |-> message]
      [] status_code = 409 ->
           IF Truthy(body.outcome)
           THEN LET outcome == parse_outcome(body.outcome) IN
                IF outcome.ok
                THEN [type |-> "GameOverError", status_code |-> 409,
                      message |-> message, outcome |-> outcome.value]
                ELSE outcome.error
           ELSE [type |-> "CrawlerAPIError", status_code |-> 409,
                 message |-> message]
      [] status_code = 422 ->
           [type |-> "InvalidActionError", status_code |-> 422,
            message |-> message, code |-> Code(body)]
      [] status_code = 429 ->
           LET retry_after == int(RetryAfterText(headers)) IN
           IF retry_after.ok
           THEN [type |-> "RateLimitError", status_code |-> 429,
                 message |-> message, retry_after |-> retry_after.value]
           ELSE retry_after.error
      [] OTHER ->
           [type |-> "CrawlerAPIError", status_code |-> status_code,
            message |-> message]

\* CrawlerClient._request: the decoded body of a response below 400; for a
\* response from 400 on, the exception of map_error_response, called with
\* the decoded body or with {"error": response.text} when decoding fails.
request(response) ==
    IF response.status_code >= 400
    THEN LET decoded == response_json(response)
             body == IF decoded.ok THEN decoded.value
                     ELSE JsonObject(response.text, None, NoneStr, None)
         IN [ok |-> FALSE,
             error |-> map_error_response(response.status_code, body,
                                          response.headers)]
    ELSE response_json(response)

\* The error responses the service may give to any call.
ErrorBody(o) == JsonObject("error", o, "INVALID_ACTION", None)

ErrorResponse(s, o, h) ==
    [status_code |-> s, decodes |-> TRUE, body |-> ErrorBody(o),
     headers |-> [retry_after |-> h]]

RetryAfterHeaders ==
    { NoHeader, Header(<<"2">>), Header(<<"-", "1">>),
      Header(<<"W", "e", "d">>) }

\* Error responses whose body is not the API's error object: text that is
\* not JSON (a proxy's HTML page, an empty body), JSON that is not an object,
\* and an object without the members the client reads.
RawResponse(s, t) ==
    [status_code |-> s, decodes |-> FALSE, text |-> t,
     headers |-> [retry_after |-> NoHeader]]

JsonResponse(s, b) ==
    [status_code |-> s, decodes |-> TRUE, body |-> b,
     headers |-> [retry_after |-> NoHeader]]

OddResponses ==
    { RawResponse(502, "<html>Bad Gateway</html>"), RawResponse(500, ""),
      JsonResponse(500, JsonArray),
      JsonResponse(400, JsonObject(NoneStr, None, NoneStr, [field |-> "modelId"])),
      JsonResponse(422, JsonObject(NoneStr, None, NoneStr, None)) }

ErrorResponses ==
    { ErrorResponse(s, None, NoHeader) : s \in {400, 401, 403, 404, 422, 500} }
    \cup { ErrorResponse(409, o, NoHeader) :
             o \in {None, EmptyPayload, MalformedOutcome} \cup Outcomes }
    \cup { ErrorResponse(429, None, h) : h \in RetryAfterHeaders }
    \cup OddResponses

OkResponse(s, b) ==
    [status_code |-> s, decodes |-> TRUE, body |-> b,
     headers |-> [retry_after |-> NoHeader]]

\* POST /games/{id}/action and GET /games/{id}
StateResponses ==
    { OkResponse(200, [observation |-> o, outcome |-> oc]) :
        o \in Observations, oc \in Outcomes }
    \cup ErrorResponses

\* POST /games
CreateResponses ==
    { OkResponse(201, [game_id |-> g, observation |-> o, spectator_url |-> u]) :
        g \in GameIds, o \in Observations, u \in SpectatorUrls }
    \cup ErrorResponses

(***************************************************************************)
(* The runner (runner.py, run_game).                                       *)
(***************************************************************************)
NoAction == "<unbound>"

Runners == {"run_game", "async_run_game"}

ModelIds == {"gpt-4o"}

\* model_id is read in fresh mode only (line 51); a resumed run is given
\* the default.
Init ==
    /\ runner \in Runners
    /\ game_id_arg \in {NoneStr} \cup GameIds
    /\ model_id \in IF game_id_arg = NoneStr THEN {NoneStr} \cup ModelIds
                    ELSE {NoneStr}
    /\ create_args = None
    /\ max_invalid_actions \in 0..MaxThreshold
    /\ on_step_set \in BOOLEAN
    /\ pc = "start"
    /\ game_id = game_id_arg
    /\ spectator_url = NoneStr
    /\ observation = None
    /\ consecutive_invalid = 0
    /\ action = NoAction
    /\ result = None
    /\ pending = None
    /\ returned = None
    /\ raised = None
    /\ n_get = 0
    /\ n_create = 0
    /\ n_agent = 0
    /\ n_submit = 0
    /\ n_on_step = 0
    /\ n_sleep = 0
    /\ agent_arg = None
    /\ submit_args = None
    /\ on_step_args = None
    /\ sleep_arg = None
    /\ last_response = None
    /\ first_obs = None
    /\ last_outcome = None
    /\ n_success = 0
    /\ invalid_run = 0
    /\ thrown = None
    /\ iter_invalid = 0
    /\ n_stored = 0
    /\ client = [given |-> TRUE]
    /\ n_requests = 0
    /\ fn_in = None
    /\ fn_out = None

params == <<runner, model_id, game_id_arg, max_invalid_actions, on_step_set,
            client,
            n_requests, fn_in, fn_out>>

\* An exception leaves run_game.
Raise_Swallowed(e) ==
    /\ pc' = "decide"
    /\ raised' = raised
    /\ returned' = returned

Raise_Generic(e) ==
    /\ pc' = "raised"
    /\ raised' = [type |-> "Exception"]
    /\ returned' = returned

Raise(e) ==
    /\ pc' = "raised"
    /\ raised' = e
    /\ returned' = returned

\* return GameResult(...): the construction may itself raise.
Return(gr) ==
    IF gr.ok
    THEN /\ pc' = "returned"
         /\ returned' = gr.value
         /\ raised' = raised
    ELSE Raise(gr.error)

\* The loop goes on to its next iteration.
Continue ==
    /\ pc' = "decide"
    /\ returned' = returned
    /\ raised' = raised

\* Lines 107-115: store the response's Observation, return when the
\* response's Outcome is not in-progress.
Advance_Stale(res) ==
    /\ observation' = observation
    /\ n_stored' = n_stored + 1
    /\ IF ~IsInProgress(res.outcome)
       THEN Return(GameResult(game_id, spectator_url, res.outcome))
       ELSE Continue

Advance(res) ==
    /\ observation' = res.observation
    /\ n_stored' = n_stored + 1
    /\ IF ~IsInProgress(res.outcome)
       THEN Return(GameResult(game_id, spectator_url, res.outcome))
       ELSE Continue

\* Line 43: the spectator URL of a resumed game.
resume_spectator_url_Unset == NoneStr

resume_spectator_url == ""

\* Lines 40-49: resume mode.
Resume ==
    /\ pc = "start"
    /\ game_id_arg # NoneStr
    /\ \E response \in StateResponses :
         LET state == request(response) IN
         /\ n_get' = n_get + 1
         /\ last_response' = [call |-> "get", response |-> response,
                             answer |-> state]
         /\ IF state.ok
            THEN /\ observation' = state.value.observation
                 /\ first_obs' = state.value.observation
                 /\ last_outcome' = state.value.outcome
                 /\ spectator_url' = resume_spectator_url
                 /\ IF ~IsInProgress(state.value.outcome)
                    THEN Return(GameResult(game_id, resume_spectator_url,
                                           state.value.outcome))
                    ELSE Continue
            ELSE /\ Raise(state.error)
                 /\ last_outcome' =
                       IF state.error.type = "GameOverError"
                       THEN state.error.outcome
                       ELSE last_outcome
                 /\ UNCHANGED <<observation, first_obs, spectator_url>>
    /\ UNCHANGED <<params, create_args, iter_invalid, n_stored, game_id, consecutive_invalid, action, result,
                   pending, n_create, n_agent, n_submit, n_on_step, n_sleep,
                   agent_arg, submit_args, on_step_args, sleep_arg,
                   n_success, invalid_run, thrown>>

\* Line 51: client.games.create(model_id=model_id)
create_call_NoModel == [model_id |-> NoneStr]

create_call == [model_id |-> model_id]

\* Lines 50-54: fresh mode.
Create ==
    /\ pc = "start"
    /\ game_id_arg = NoneStr
    /\ \E response \in CreateResponses :
         LET game == request(response) IN
         /\ n_create' = n_create + 1
         /\ create_args' = create_call
         /\ last_response' = [call |-> "create", response |-> response,
                             answer |-> game]
         /\ IF game.ok
            THEN /\ game_id' = game.value.game_id
                 /\ observation' = game.value.observation
                 /\ first_obs' = game.value.observation
                 /\ spectator_url' = game.value.spectator_url
                 /\ Continue
                 /\ UNCHANGED last_outcome
            ELSE /\ Raise(game.error)
                 /\ last_outcome' =
                       IF game.error.type = "GameOverError"
                       THEN game.error.outcome
                       ELSE last_outcome
                 /\ UNCHANGED <<game_id, observation, first_obs,
                                spectator_url>>
    /\ UNCHANGED <<params, iter_invalid, n_stored, consecutive_invalid, action, result, pending,
                   n_get, n_agent, n_submit, n_on_step, n_sleep, agent_arg,
                   submit_args, on_step_args, sleep_arg,
                   n_success, invalid_run, thrown>>

\* What agent_fn may raise: any Exception.
AgentExceptions ==
    { [type |-> "ValueError", origin |-> "agent_fn"],
      [type |-> "KeyError", origin |-> "agent_fn"] }

\* Lines 63-66: the RuntimeError raised from e; its message names game_id and
\* observation.turn, its __cause__ is e.
AgentError_Unwrapped(e) == e

AgentError_NoCause(e) ==
    [type |-> "RuntimeError", game |-> game_id, turn |-> observation.turn,
     cause |-> None]

AgentError(e) ==
    [type |-> "RuntimeError", game |-> game_id, turn |-> observation.turn,
     cause |-> e]

\* Lines 61-62: agent_fn(observation) returns an action.
AgentReturns ==
    /\ pc = "decide"
    /\ n_agent < MaxCalls
    /\ n_agent' = n_agent + 1
    /\ agent_arg' = observation
    /\ iter_invalid' = consecutive_invalid
    /\ \E a \in Actions : action' = a
    /\ pc' = "submit"
    /\ UNCHANGED <<params, create_args, n_stored, game_id, spectator_url, observation,
                   consecutive_invalid, result, pending, returned, raised,
                   n_get, n_create, n_submit, n_on_step, n_sleep,
                   submit_args, on_step_args, sleep_arg, last_response,
                   first_obs, last_outcome, n_success, invalid_run, thrown>>

\* Lines 61-66: agent_fn(observation) raises.
AgentRaises ==
    /\ pc = "decide"
    /\ n_agent < MaxCalls
    /\ n_agent' = n_agent + 1
    /\ agent_arg' = observation
    /\ iter_invalid' = consecutive_invalid
    /\ \E e \in AgentExceptions :
         /\ thrown' = e
         /\ Raise(AgentError(e))
    /\ UNCHANGED <<params, create_args, n_stored, game_id, spectator_url, observation,
                   consecutive_invalid, action, result, pending,
                   n_get, n_create, n_submit, n_on_step, n_sleep,
                   submit_args, on_step_args, sleep_arg, last_response,
                   first_obs, last_outcome, n_success, invalid_run>>

\* Line 84: consecutive_invalid >= max_invalid_actions
ThresholdReached_Never(c, m) == FALSE

ThresholdReached_Above(c, m) == c > m

ThresholdReached_First(c, m) == c >= 1

ThresholdReached(c, m) == c >= m

\* Lines 68-115 without the callback and the sleep: one
\* Lines 87-95: the rate-limit handler does not touch consecutive_invalid.
after_rate_limit_Reset(c) == 0

after_rate_limit(c) == c

\* Line 69: client.games.action(game_id, action)
submit_call_Unbound == [game_id |-> game_id, action |-> NoAction]

submit_call == [game_id |-> game_id, action |-> action]

\* client.games.action call and what the runner does with its answer.
Submit ==
    /\ pc = "submit"
    /\ \E response \in StateResponses :
         LET answer == request(response) IN
         /\ n_submit' = n_submit + 1
         /\ submit_args' = submit_call
         /\ last_response' = [call |-> "action", response |-> response,
                             answer |-> answer]
         /\ IF answer.ok
            THEN /\ result' = answer.value
                 /\ consecutive_invalid' = 0
                 /\ n_success' = n_success + 1
                 /\ invalid_run' = 0
                 /\ last_outcome' = answer.value.outcome
                 /\ pending' = pending
                 /\ IF on_step_set
                    THEN /\ pc' = "on_step"
                         /\ UNCHANGED <<observation, n_stored, returned,
                                        raised>>
                    ELSE Advance(answer.value)
            ELSE IF answer.error.type = "InvalidActionError"
            THEN /\ consecutive_invalid' = consecutive_invalid + 1
                 /\ invalid_run' = invalid_run + 1
                 /\ IF ThresholdReached(consecutive_invalid + 1,
                                        max_invalid_actions)
                    THEN Raise(answer.error)
                    ELSE Continue
                 /\ UNCHANGED <<result, n_success, last_outcome, pending,
                                observation, n_stored>>
            ELSE IF answer.error.type = "RateLimitError"
            THEN /\ pending' = answer.error
                 /\ pc' = "sleep"
                 /\ consecutive_invalid' =
                       after_rate_limit(consecutive_invalid)
                 /\ UNCHANGED <<result, n_success,
                                invalid_run, last_outcome, observation,
                                n_stored, returned, raised>>
            ELSE IF answer.error.type = "GameOverError"
            THEN /\ last_outcome' = answer.error.outcome
                 /\ Return(GameResult(game_id, spectator_url,
                                      answer.error.outcome))
                 /\ UNCHANGED <<result, consecutive_invalid, n_success,
                                invalid_run, pending, observation, n_stored>>
            ELSE /\ Raise(answer.error)
                 /\ UNCHANGED <<result, consecutive_invalid, n_success,
                                invalid_run, last_outcome, pending,
                                observation, n_stored>>
    /\ UNCHANGED <<params, create_args, iter_invalid, game_id, spectator_url, action, n_get, n_create,
                   n_agent, n_on_step, n_sleep, agent_arg, on_step_args,
                   sleep_arg, first_obs, thrown>>

\* What on_step may raise.
CallbackExceptions == { [type |-> "RuntimeError", origin |-> "on_step"] }

\* Line 105: the arguments of on_step: the Observation agent_fn decided on
\* (line 107 has not run yet) and the action submitted.
on_step_call_after ==
    [observation |-> result.observation, action |-> action]

on_step_call == [observation |-> observation, action |-> action]

\* Lines 104-105: nothing catches what on_step raises.
CallbackFailure_Swallowed(e) == Advance(result)

CallbackFailure_Stored(e) ==
    Raise(e) /\ observation' = result.observation /\ n_stored' = n_stored + 1

CallbackFailure(e) ==
    Raise(e) /\ observation' = observation /\ n_stored' = n_stored

\* Lines 104-115: on_step(observation, action) returns.
OnStepReturns ==
    /\ pc = "on_step"
    /\ n_on_step' = n_on_step + 1
    /\ on_step_args' = on_step_call
    /\ Advance(result)
    /\ UNCHANGED <<params, create_args, iter_invalid, game_id, spectator_url, consecutive_invalid,
                   action, result, pending, n_get, n_create, n_agent,
                   n_submit, n_sleep, agent_arg, submit_args, sleep_arg,
                   last_response, first_obs, last_outcome, n_success,
                   invalid_run, thrown>>

\* Lines 104-105: on_step(observation, action) raises.
OnStepRaises ==
    /\ pc = "on_step"
    /\ n_on_step' = n_on_step + 1
    /\ on_step_args' = on_step_call
    /\ \E e \in CallbackExceptions :
         /\ thrown' = e
         /\ CallbackFailure(e)
    /\ UNCHANGED <<params, create_args, iter_invalid, game_id, spectator_url,
                   consecutive_invalid, action, result, pending, n_get,
                   n_create, n_agent, n_submit, n_sleep, agent_arg,
                   submit_args, sleep_arg, last_response, first_obs,
                   last_outcome, n_success, invalid_run>>

\* time.sleep(secs): returns after secs seconds, raises ValueError for a
\* negative length.
time_sleep(secs) ==
    IF secs < 0
    THEN [ok |-> FALSE, error |-> [type |-> "ValueError", origin |-> "sleep"]]
    ELSE [ok |-> TRUE]

\* await asyncio.sleep(secs): returns after secs seconds, at once for a
\* length that is zero or negative.
asyncio_sleep(secs) == [ok |-> TRUE]

\* Line 94 of run_game, line 182 of async_run_game: the only line in which
\* the two runners differ.
sleep_of(rn, secs) ==
    IF rn = "run_game" THEN time_sleep(secs) ELSE asyncio_sleep(secs)

\* Lines 87-95 (175-183 of async_run_game): time.sleep(e.retry_after) or
\* await asyncio.sleep(e.retry_after), then continue.
Sleep ==
    /\ pc = "sleep"
    /\ n_sleep' = n_sleep + 1
    /\ sleep_arg' = [secs |-> pending.retry_after]
    /\ LET slept == sleep_of(runner, pending.retry_after) IN
       IF slept.ok THEN Continue ELSE Raise(slept.error)
    /\ UNCHANGED <<params, create_args, iter_invalid, n_stored, game_id, spectator_url, observation,
                   consecutive_invalid, action, result, pending, n_get,
                   n_create, n_agent, n_submit, n_on_step, agent_arg,
                   submit_args, on_step_args, last_response, first_obs,
                   last_outcome, n_success, invalid_run, thrown>>

Next ==
    \/ Resume
    \/ Create
    \/ AgentReturns
    \/ AgentRaises
    \/ Submit
    \/ OnStepReturns
    \/ OnStepRaises
    \/ Sleep

Spec == Init /\ [][Next]_vars

(***************************************************************************)
(* The client layer on its own (_base_client.py, client.py): constructing  *)
(* a client, sending a request, classifying an error response.             *)
(***************************************************************************)
MaxRequests == 2       \* requests sent through one client

ApiKeys == {"sk-arg", ""}

EnvKeys == {"sk-env"}

\* resolve_api_key: the explicit argument first, then the environment
\* variable CRAWLERVERSE_API_KEY, else AuthenticationError.
resolve_api_key_EnvFirst(api_key, env_key) ==
    IF env_key # NoneStr THEN [ok |-> TRUE, value |-> env_key]
    ELSE IF api_key # NoneStr THEN [ok |-> TRUE, value |-> api_key]
    ELSE [ok |-> FALSE,
          error |-> [type |-> "AuthenticationError", status_code |-> 401,
                     message |-> "No API key provided. Pass api_key= or set CRAWLERVERSE_API_KEY environment variable."]]

resolve_api_key(api_key, env_key) ==
    IF api_key # NoneStr THEN [ok |-> TRUE, value |-> api_key]
    ELSE IF env_key # NoneStr THEN [ok |-> TRUE, value |-> env_key]
    ELSE [ok |-> FALSE,
          error |-> [type |-> "AuthenticationError", status_code |-> 401,
                     message |-> "No API key provided. Pass api_key= or set CRAWLERVERSE_API_KEY environment variable."]]

\* build_headers: the Authorization header it sets.
build_headers(api_key) == [Authorization |-> "Bearer " \o api_key]

\* CrawlerClient.__init__ (AsyncCrawlerClient.__init__ is the same): the key
\* is resolved before the HTTP client is built; building it sends nothing.
CrawlerClient(api_key, env_key) ==
    LET resolved_key == resolve_api_key(api_key, env_key) IN
    IF resolved_key.ok
    THEN [ok |-> TRUE, value |-> [headers |-> build_headers(resolved_key.value)]]
    ELSE resolved_key

\* Retry-after texts that int() accepts besides plain digits.
LenientRetryAfterHeaders ==
    { Header(<<" ", "2">>), Header(<<"2", " ">>), Header(<<"2", "\n">>),
      Header(<<" ", "-", "3", " ">>), Header(<<"1", "_", "0">>),
      Header(<<"+", "0", "7">>), Header(<<"U+0661", "U+0662">>),
      Header(<<"1", "_", "_", "0">>), Header(<<"_", "1">>),
      Header(<<"-", " ", "1">>), Header(<<>>),
      Header(<<"U+FF12">>), Header(<<"U+0967">>), Header(<<"U+06F3">>),
      Header(<<"U+000B", "2">>), Header(<<"2", "U+00A0">>),
      Header(<<"U+3000", "U+002D", "U+0968", "U+005F", "3", "U+2003">>),
      Header(<<"U+001C", "2">>) }

\* The bodies and status codes map_error_response is applied to.
ErrorStatuses == {400, 401, 403, 404, 409, 418, 422, 429, 500}

ErrorBodies ==
    { JsonObject(e, o, c, d) :
        e \in {NoneStr, "error"},
        o \in {None, EmptyPayload, MalformedOutcome} \cup Outcomes,
        c \in {NoneStr, "INVALID_ACTION"},
        d \in {None, [field |-> "modelId"]} }

runner_vars == <<runner, model_id, create_args, game_id_arg,
                 max_invalid_actions, on_step_set, pc,
                 game_id, spectator_url, observation, consecutive_invalid,
                 action, result, pending, returned, raised, n_get, n_create,
                 n_agent, n_submit, n_on_step, n_sleep, agent_arg,
                 submit_args, on_step_args, sleep_arg, last_response,
                 first_obs, last_outcome, n_success, invalid_run, thrown,
                 iter_invalid, n_stored>>

\* No client exists yet and no runner is running.
ClientInit ==
    /\ runner = "run_game"
    /\ model_id = NoneStr
    /\ create_args = None
    /\ game_id_arg = NoneStr
    /\ max_invalid_actions = 0
    /\ on_step_set = FALSE
    /\ pc = "start"
    /\ game_id = NoneStr
    /\ spectator_url = NoneStr
    /\ observation = None
    /\ consecutive_invalid = 0
    /\ action = NoAction
    /\ result = None
    /\ pending = None
    /\ returned = None
    /\ raised = None
    /\ n_get = 0
    /\ n_create = 0
    /\ n_agent = 0
    /\ n_submit = 0
    /\ n_on_step = 0
    /\ n_sleep = 0
    /\ agent_arg = None
    /\ submit_args = None
    /\ on_step_args = None
    /\ sleep_arg = None
    /\ last_response = None
    /\ first_obs = None
    /\ last_outcome = None
    /\ n_success = 0
    /\ invalid_run = 0
    /\ thrown = None
    /\ iter_invalid = 0
    /\ n_stored = 0
    /\ client = None
    /\ n_requests = 0
    /\ fn_in = None
    /\ fn_out = None

\* CrawlerClient(api_key=...) with the environment variable set or unset.
NewClient ==
    /\ client = None
    /\ \E api_key \in {NoneStr} \cup ApiKeys, env_key \in {NoneStr} \cup EnvKeys :
         LET made == CrawlerClient(api_key, env_key) IN
         /\ fn_in' = [fn |-> "CrawlerClient", api_key |-> api_key,
                      env_key |-> env_key]
         /\ fn_out' = made
         /\ client' = IF made.ok THEN made.value ELSE None
    /\ UNCHANGED <<runner_vars, n_requests>>

\* client._request(...): one HTTP request, answered by any response.
ClientRequest ==
    /\ client # None
    /\ n_requests < MaxRequests
    /\ \E response \in StateResponses \cup CreateResponses :
         /\ fn_in' = [fn |-> "_request", response |-> response]
         /\ fn_out' = request(response)
    /\ n_requests' = n_requests + 1
    /\ UNCHANGED <<runner_vars, client>>

\* map_error_response(status_code, body, headers), called directly on
\* inputs of its signature.
MapError ==
    /\ fn_in = None
    /\ \E status_code \in ErrorStatuses, body \in ErrorBodies,
          h \in RetryAfterHeaders \cup LenientRetryAfterHeaders :
         /\ fn_in' = [fn |-> "map_error_response", status_code |-> status_code,
                      body |-> body, headers |-> [retry_after |-> h]]
         /\ fn_out' = [ok |-> FALSE,
                       error |-> map_error_response(status_code, body,
                                                    [retry_after |-> h])]
    /\ UNCHANGED <<runner_vars, client, n_requests>>

ClientNext == NewClient \/ ClientRequest \/ MapError

ClientSpec == ClientInit /\ [][ClientNext]_vars

(***************************************************************************)
(* Properties.  They are stated over what the collaborators saw (the call  *)
(* counters and call arguments) and over what run_game returned or raised. *)
(***************************************************************************)

\* An Outcome that is not in-progress.
Ended(o) == o # None /\ o.status \in {"completed", "abandoned"}

\* The answer of the last transport call, when that call was `call`.
LastAnswerOf(call) ==
    IF last_response # None /\ last_response.call = call
    THEN last_response.answer
    ELSE [ok |-> FALSE, error |-> None]

\* The last submit was answered with an exception of type `t`.
SubmitFailedWith(t) ==
    /\ ~LastAnswerOf("action").ok
    /\ LastAnswerOf("action").error.type = t

\* Every submit of the run so far was answered with a decoded ActionResponse.
AllSubmitsSucceeded == n_submit > 0 /\ n_success = n_submit

\* on_step raised and its exception is what left run_game.
CallbackAborted == thrown \in CallbackExceptions /\ pc = "raised" /\ raised = thrown

C1_State ==
    AllSubmitsSucceeded =>
        /\ pc = "returned" =>
              /\ Ended(last_outcome)
              /\ last_outcome = LastAnswerOf("action").value.outcome
              /\ returned.outcome = last_outcome
        /\ Ended(last_outcome) =>
              \/ pc = "returned"
              \/ on_step_set /\ (pc = "on_step" \/ CallbackAborted)

C1_Step ==
    (AllSubmitsSucceeded /\ Ended(last_outcome)) =>
        /\ n_agent' = n_agent
        /\ n_submit' = n_submit

\* C1: while every submit succeeds, run_game returns exactly at the first
\* response whose outcome is not in-progress: it has not returned while the
\* latest outcome is in-progress, after a not-in-progress response it makes no
\* further agent_fn call or submit and returns (unless on_step, still to run
\* for that response, raises), and the returned GameResult carries that
\* response's outcome.
C1_ReturnsAtFirstTerminalOutcome == [](C1_State) /\ [][C1_Step]_vars

C1_Witness ==
    /\ pc = "returned"
    /\ n_submit = 2
    /\ n_success = 2
    /\ n_agent = 2
    /\ returned.outcome = last_outcome
    /\ returned.outcome = LastAnswerOf("action").value.outcome

\* C2: resuming a game whose fetched outcome is not in-progress returns a
\* GameResult with that outcome, the given game_id and an empty spectator
\* URL, after exactly one get and no create, agent_fn, submit or on_step call.
C2_ResumeEndedReturnsImmediately ==
    (LastAnswerOf("get").ok /\ Ended(LastAnswerOf("get").value.outcome)) =>
        /\ pc = "returned"
        /\ returned = [game_id |-> game_id_arg,
                       spectator_url |-> "",
                       outcome |-> LastAnswerOf("get").value.outcome]
        /\ n_get = 1
        /\ n_create = 0
        /\ n_agent = 0
        /\ n_submit = 0
        /\ n_on_step = 0

C2_Witness ==
    /\ pc = "returned"
    /\ game_id_arg = "existing-game"
    /\ n_get = 1
    /\ n_submit = 0
    /\ returned.spectator_url = ""
    /\ returned.outcome = CompletedOutcome("victory", 5, 100)

\* This step is a submit answered with an exception of type `t`.
SubmitStepFailedWith(t) ==
    /\ n_submit' = n_submit + 1
    /\ SubmitFailedWith(t)'

C3_Rejected ==
    (SubmitStepFailedWith("InvalidActionError")
       /\ invalid_run' < max_invalid_actions) =>
        /\ pc' = "decide"
        /\ observation' = observation
        /\ observation' = agent_arg
        /\ n_agent' = n_agent
        /\ n_success' = n_success

C3_Retried ==
    (n_agent' = n_agent + 1 /\ SubmitFailedWith("InvalidActionError")) =>
        /\ agent_arg' = agent_arg
        /\ agent_arg'.turn = agent_arg.turn

\* agent_fn has not been called since the last submit was answered.
BetweenSubmitAndDecision == pc # "submit" /\ thrown \notin AgentExceptions

C3_TwoCalls ==
    (n_submit = 2 /\ n_success = 1 /\ n_sleep = 0 /\ LastAnswerOf("action").ok
       /\ BetweenSubmitAndDecision)
        => n_agent = 2

\* C3: when a submit is rejected as invalid-action and the rejections since
\* the last success are still fewer than max_invalid_actions, the runner goes
\* back to agent_fn with the Observation it passed for the rejected action
\* (the observation slot is unchanged, no turn is counted), so one rejection
\* followed by one accepted action makes exactly two agent_fn calls by the
\* time the accepted action's response has been handled.
C3_InvalidActionRetriesSameObservation ==
    [][C3_Rejected /\ C3_Retried]_vars /\ [](C3_TwoCalls)

C3_Witness ==
    /\ BetweenSubmitAndDecision
    /\ n_agent = 2
    /\ n_submit = 2
    /\ n_success = 1
    /\ n_sleep = 0
    /\ LastAnswerOf("action").ok
    /\ agent_arg = first_obs
    /\ max_invalid_actions = 2

C4_State ==
    max_invalid_actions >= 1 =>
        /\ invalid_run <= max_invalid_actions
        /\ invalid_run = max_invalid_actions =>
              /\ pc = "raised"
              /\ returned = None
              /\ raised.type = "InvalidActionError"
              /\ raised = LastAnswerOf("action").error
        /\ (invalid_run = max_invalid_actions /\ n_submit = invalid_run) =>
              n_agent = max_invalid_actions

C4_Step ==
    (max_invalid_actions >= 1 /\ invalid_run = max_invalid_actions) =>
        /\ n_agent' = n_agent
        /\ n_submit' = n_submit

\* C4: for max_invalid_actions = N >= 1, the N-th invalid-action rejection
\* since the last success makes run_game raise that InvalidActionError; when
\* these were the first N submits, agent_fn has been called exactly N times
\* and N submits were made, and no further agent_fn call or submit follows.
C4_ThresholdRaises == [](C4_State) /\ [][C4_Step]_vars

C4_Witness ==
    /\ max_invalid_actions = 2
    /\ invalid_run = 2
    /\ n_submit = 2
    /\ n_agent = 2
    /\ pc = "raised"
    /\ raised.type = "InvalidActionError"

C5_RateLimited ==
    SubmitStepFailedWith("RateLimitError") =>
        /\ pc' = "sleep"
        /\ observation' = observation
        /\ consecutive_invalid' = consecutive_invalid
        /\ n_agent' = n_agent

C5_Sleeps ==
    pc = "sleep" =>
        /\ n_sleep' = n_sleep + 1
        /\ sleep_arg' = [secs |-> LastAnswerOf("action").error.retry_after]
        /\ n_submit' = n_submit
        /\ n_agent' = n_agent
        /\ observation' = observation
        /\ consecutive_invalid' = consecutive_invalid
        /\ pc' = "decide"

C5_Retries ==
    (n_agent' = n_agent + 1 /\ SubmitFailedWith("RateLimitError")) =>
        /\ sleep_arg = [secs |-> LastAnswerOf("action").error.retry_after]
        /\ agent_arg' = agent_arg

\* C5: a submit answered with a rate-limit error carrying retry-after = R
\* makes the runner sleep R seconds and then go back to agent_fn with the
\* unchanged Observation and the unchanged consecutive-invalid counter; no
\* submit is made before the sleep has ended.
C5_RateLimitSleepsThenRetries ==
    [][C5_RateLimited /\ C5_Sleeps /\ C5_Retries]_vars

C6_State ==
    SubmitFailedWith("GameOverError") =>
        /\ pc = "returned"
        /\ returned = [game_id |-> submit_args.game_id,
                       spectator_url |-> spectator_url,
                       outcome |-> LastAnswerOf("action").error.outcome]

C6_Step ==
    SubmitFailedWith("GameOverError") =>
        /\ n_agent' = n_agent
        /\ n_submit' = n_submit
        /\ n_on_step' = n_on_step

\* C6: a submit that fails with GameOverError (a conflict response carrying
\* an outcome payload) makes run_game return a GameResult with exactly the
\* outcome the error carries, the run's game id and spectator URL, and no
\* further agent_fn, submit or on_step call.
C6_GameOverReturnsItsOutcome == [](C6_State) /\ [][C6_Step]_vars

C7_State ==
    /\ on_step_set =>
          n_on_step = n_success - (IF pc = "on_step" THEN 1 ELSE 0)
    /\ ~on_step_set => n_on_step = 0
    /\ ~LastAnswerOf("action").ok => pc # "on_step"

C7_Step ==
    n_on_step' # n_on_step =>
        /\ on_step_set
        /\ n_on_step' = n_on_step + 1
        /\ n_on_step' = n_success
        /\ LastAnswerOf("action").ok
        /\ on_step_args' = [observation |-> agent_arg,
                            action |-> submit_args.action]

\* C7: a supplied on_step is called exactly once for each successful submit,
\* in order, and for no submit that was rejected, rate-limited or ended by a
\* conflict; the k-th call receives the Observation agent_fn saw for the
\* k-th successful submit (not the one in the response) and the action that
\* was submitted.
C7_OnStepOncePerSuccessfulSubmit == [](C7_State) /\ [][C7_Step]_vars

C7_Witness ==
    /\ on_step_set
    /\ n_on_step = 2
    /\ n_success = 2
    /\ n_submit = 3
    /\ LastAnswerOf("action").ok
    /\ on_step_args.observation = agent_arg
    /\ on_step_args.observation # LastAnswerOf("action").value.observation
    /\ on_step_args.action = submit_args.action

C8_State ==
    thrown \in CallbackExceptions =>
        /\ pc = "raised"
        /\ raised = thrown
        /\ returned = None

C8_Step ==
    thrown \in CallbackExceptions =>
        /\ n_agent' = n_agent
        /\ n_submit' = n_submit
        /\ n_sleep' = n_sleep

\* C8: an exception raised by on_step leaves run_game unchanged and ends the
\* loop: no agent_fn call, submit or sleep follows and no GameResult is
\* returned, whether the preceding submit's outcome was in-progress or not.
C8_CallbackExceptionPropagates == [](C8_State) /\ [][C8_Step]_vars

C8_Witness ==
    /\ thrown \in CallbackExceptions
    /\ raised = thrown
    /\ Ended(last_outcome)
    /\ n_on_step = 2

C9_State ==
    thrown \in AgentExceptions =>
        /\ pc = "raised"
        /\ returned = None
        /\ raised = [type |-> "RuntimeError",
                     game |-> game_id,
                     turn |-> agent_arg.turn,
                     cause |-> thrown]
        /\ agent_arg = observation
        /\ n_agent = n_submit + 1

C9_Step ==
    /\ (thrown = None /\ thrown' \in AgentExceptions) =>
          /\ n_agent' = n_agent + 1
          /\ n_submit' = n_submit
    /\ thrown \in AgentExceptions =>
          /\ n_agent' = n_agent
          /\ n_submit' = n_submit

\* C9: when agent_fn raises, the runner neither retries it nor submits: it
\* raises a RuntimeError that names the game id and the turn of the current
\* Observation and has the original exception as its cause, however many
\* invalid-action or rate-limit retries came before.
C9_AgentFailureWrapped == [](C9_State) /\ [][C9_Step]_vars

C9_Witness ==
    /\ thrown \in AgentExceptions
    /\ raised.cause = thrown
    /\ raised.turn = 2
    /\ invalid_run = 1
    /\ n_sleep = 1
    /\ n_agent = 3

\* C10 as stated: the runner has terminated if and only if the Outcome it
\* last received is not in-progress (on_step may still be running for the
\* response that carried it).
C10_TerminatesIffOutcomeEnded ==
    /\ pc \in {"returned", "raised"} => Ended(last_outcome)
    /\ Ended(last_outcome) =>
          pc \in {"returned", "raised", "on_step"}

C10_State ==
    /\ pc = "returned" => Ended(last_outcome)
    /\ Ended(last_outcome) => pc \in {"returned", "raised", "on_step"}

C10_Step ==
    Ended(last_outcome) =>
        /\ n_agent' = n_agent
        /\ n_submit' = n_submit
        /\ n_sleep' = n_sleep
        /\ n_get' = n_get
        /\ n_create' = n_create
        /\ pc' \in {"returned", "raised"}

\* C10 amended: the runner has returned a GameResult only if the Outcome it
\* last received is completed or abandoned, and whenever such an Outcome is
\* received the runner terminates: it is received by a transport call that
\* ends the run, or by a submit whose on_step call is the last step before
\* the run ends, and no agent_fn call, transport call or sleep follows.  A
\* run that ends by raising may have received an in-progress Outcome, or
\* none, last.
C10_ReturnsIffOutcomeEnded == [](C10_State) /\ [][C10_Step]_vars

C10_Witness ==
    /\ pc = "raised"
    /\ thrown \in AgentExceptions
    /\ last_outcome = InProgressOutcome
    /\ n_success = 1

(***************************************************************************)
(* Result contract, termination ways and error classification.             *)
(***************************************************************************)

\* C11: every GameResult returned by run_game or async_run_game carries an
\* outcome that is completed or abandoned, never in-progress, whichever of
\* the three returning paths produced it (resume of an ended game, conflict
\* during submit, terminal successful submit).
C11_ReturnedOutcomeNeverInProgress ==
    pc = "returned" =>
        /\ returned # None
        /\ returned.outcome.status \in {"completed", "abandoned"}
        /\ returned.outcome # InProgressOutcome
        /\ \/ n_submit = 0 /\ LastAnswerOf("get").ok
           \/ SubmitFailedWith("GameOverError")
           \/ LastAnswerOf("action").ok

C11_Witness ==
    /\ runner = "async_run_game"
    /\ pc = "returned"
    /\ SubmitFailedWith("GameOverError")
    /\ returned.outcome = AbandonedOutcome("timeout", 1, 5)
    /\ n_success = 1

\* The four ways a run ends.
\* (a) the resumed game had already ended: no agent_fn call, no submit.
ResumeShortCircuit ==
    /\ n_get = 1 /\ n_agent = 0 /\ n_submit = 0
    /\ LastAnswerOf("get").ok
    /\ ~IsInProgress(LastAnswerOf("get").value.outcome)

\* (b) the last submit failed with the game-over classification.
ConflictDuringSubmit == SubmitFailedWith("GameOverError")

\* (c) the last submit succeeded with an outcome that is not in-progress
\* (and on_step, when given, came back from it).
TerminalSubmit ==
    /\ LastAnswerOf("action").ok
    /\ ~IsInProgress(LastAnswerOf("action").value.outcome)
    /\ pc # "on_step"
    /\ thrown \notin CallbackExceptions

\* (d) an error propagated to the caller.
FatalPropagation == raised # None

WaysEnded ==
    {w \in {"a", "b", "c", "d"} :
        \/ w = "a" /\ ResumeShortCircuit
        \/ w = "b" /\ ConflictDuringSubmit
        \/ w = "c" /\ TerminalSubmit
        \/ w = "d" /\ FatalPropagation}

\* C12: every terminated run ended in exactly one of the four ways; ways
\* (a)-(c) return a GameResult and way (d) raises; no run both returns and
\* raises, and none ends any other way.
C12_EndsInExactlyOneWay ==
    /\ pc \in {"returned", "raised"} =>
          /\ Cardinality(WaysEnded) = 1
          /\ WaysEnded \subseteq {"a", "b", "c"} =>
                pc = "returned" /\ returned # None /\ raised = None
          /\ WaysEnded = {"d"} =>
                pc = "raised" /\ returned = None
    /\ ~(returned # None /\ raised # None)
    /\ pc \notin {"returned", "raised"} => returned = None /\ raised = None

\* The conflict payload the code does not turn into a GameResult (see C6).
ConflictInProgress ==
    /\ SubmitFailedWith("GameOverError")
    /\ IsInProgress(LastAnswerOf("action").error.outcome)

\* The error kind the classification table gives a status code.
HasOutcomePayload(body) == body.outcome \notin {None, EmptyPayload}

TableKind(status_code, body) ==
    CASE status_code = 400 -> "ValidationError"
      [] status_code = 401 -> "AuthenticationError"
      [] status_code = 403 -> "ForbiddenError"
      [] status_code = 404 -> "NotFoundError"
      [] status_code = 409 ->
           IF HasOutcomePayload(body) THEN "GameOverError"
           ELSE "CrawlerAPIError"
      [] status_code = 422 -> "InvalidActionError"
      [] status_code = 429 -> "RateLimitError"
      [] OTHER -> "CrawlerAPIError"

MapErrorApplied == fn_in # None /\ fn_in.fn = "map_error_response"

\* C13: for every status >= 400 and JSON-object body map_error_response
\* raises exactly the error kind of the table, carrying the status (and the
\* details for 400, the code for 422); the kind depends only on the status
\* and, for 409, on the presence of the outcome payload.
C13_MapErrorFollowsTable ==
    MapErrorApplied =>
        /\ ~fn_out.ok
        /\ fn_out.error.type = TableKind(fn_in.status_code, fn_in.body)
        /\ fn_out.error.status_code = fn_in.status_code
        /\ fn_in.status_code = 400 => fn_out.error.details = fn_in.body.details
        /\ fn_in.status_code = 422 =>
              fn_out.error.code \in {fn_in.body.code, "UNKNOWN"}

\* The inputs on which the classification leaves the table: a 429 whose
\* retry-after header is a text int() rejects, a 409 whose outcome payload
\* decodes to no Outcome.
OutsideTable ==
    /\ MapErrorApplied
    /\ \/ /\ fn_in.status_code = 429
          /\ ~int(RetryAfterText(fn_in.headers)).ok
       \/ /\ fn_in.status_code = 409
          /\ fn_in.body.outcome = MalformedOutcome

\* The last transport call was a submit answered with status 409.
SubmitConflict ==
    /\ last_response # None
    /\ last_response.call = "action"
    /\ last_response.response.status_code = 409

C14_State ==
    SubmitConflict =>
        IF HasOutcomePayload(last_response.response.body)
        THEN /\ pc = "returned"
             /\ returned # None
             /\ raised = None
        ELSE /\ pc = "raised"
             /\ raised = [type |-> "CrawlerAPIError", status_code |-> 409,
                          message |-> "error"]
             /\ returned = None

C14_Step ==
    SubmitConflict =>
        /\ n_agent' = n_agent
        /\ n_submit' = n_submit
        /\ n_sleep' = n_sleep

\* C14: a 409 on submit with an outcome payload makes the run return a
\* GameResult; a 409 on submit without one propagates as the generic
\* CrawlerAPIError, with no GameResult, no retry and no further agent_fn
\* call.
C14_ConflictSeveritySplit == [](C14_State) /\ [][C14_Step]_vars

\* The conflict payloads the code does not turn into a GameResult.
ConflictPayloadRejected ==
    /\ SubmitConflict
    /\ last_response.response.body.outcome
          \in {InProgressOutcome, MalformedOutcome}

\* The exception classes of exceptions.py.
CrawlerAPIErrorKinds ==
    {"CrawlerAPIError", "AuthenticationError", "ForbiddenError",
     "NotFoundError", "ValidationError", "GameOverError",
     "InvalidActionError", "RateLimitError"}

ErrorRequestApplied ==
    /\ fn_in # None
    /\ fn_in.fn = "_request"
    /\ fn_in.response.status_code >= 400

\* C15: for every response with status >= 400, whatever its body (not JSON,
\* empty, JSON that is not an object, an object without an error member),
\* _request raises one of the classified CrawlerAPIError kinds, never an
\* error of another type; when the body cannot be decoded the raw response
\* text is the error's message.
C15_ErrorBodyNeverSecondaryError ==
    ErrorRequestApplied =>
        /\ ~fn_out.ok
        /\ fn_out.error.type \in CrawlerAPIErrorKinds
        /\ ~fn_in.response.decodes =>
              fn_out.error.message = fn_in.response.text

\* The responses on which _request raises an error of another type: a JSON
\* body that is not an object, a 429 whose retry-after is not a text int() accepts
\* literal, a 409 whose outcome payload decodes to no Outcome.
SecondaryErrorInput ==
    /\ ErrorRequestApplied
    /\ fn_in.response.decodes
    /\ \/ ~HasGet(fn_in.response.body)
       \/ /\ fn_in.response.status_code = 429
          /\ ~int(RetryAfterText(fn_in.response.headers)).ok
       \/ /\ fn_in.response.status_code = 409
          /\ fn_in.response.body.outcome = MalformedOutcome

\* The last transport call was a submit answered with status 429.
SubmitRateLimited ==
    /\ last_response # None
    /\ last_response.call = "action"
    /\ last_response.response.status_code = 429

\* The retry-after header of the last response.
LastRetryAfter == last_response.response.headers.retry_after

C16_State ==
    SubmitRateLimited =>
        /\ SubmitFailedWith("RateLimitError")
        /\ IF LastRetryAfter.present
           THEN /\ int(LastRetryAfter.text).ok
                /\ LastAnswerOf("action").error.retry_after
                      = int(LastRetryAfter.text).value
           ELSE LastAnswerOf("action").error.retry_after = 60

C16_Step ==
    pc = "sleep" =>
        /\ n_sleep' = n_sleep + 1
        /\ sleep_arg' = [secs |-> LastAnswerOf("action").error.retry_after]
        /\ pc' = "decide"

\* C16: for every 429 response the rate-limit error raised carries
\* retry_after equal to the integer value of the retry-after header when it
\* is present and 60 when it is absent, and the runner sleeps that same
\* number of seconds before retrying.
C16_RetryAfterCarriedAndSlept == [](C16_State) /\ [][C16_Step]_vars

\* The retry-after headers the code does not handle: text that int()
\* rejects, and a negative number (see C5).
RetryAfterRejected ==
    /\ SubmitRateLimited
    /\ LastRetryAfter.present
    /\ IF int(LastRetryAfter.text).ok
       THEN int(LastRetryAfter.text).value < 0
       ELSE TRUE

ClientConstructed == fn_in # None /\ fn_in.fn = "CrawlerClient"

\* The bearer credential of the client that was constructed.
BearerOf(made) == made.value.headers.Authorization

\* C17: the bearer credential is the explicit api_key argument when one is
\* given, otherwise the value of CRAWLERVERSE_API_KEY; when neither is
\* available, constructing a client raises AuthenticationError and no
\* request has been made (none can be: there is no client).
C17_CredentialResolution ==
    /\ ClientConstructed =>
          IF fn_in.api_key # NoneStr
          THEN fn_out.ok /\ BearerOf(fn_out) = "Bearer " \o fn_in.api_key
          ELSE IF fn_in.env_key # NoneStr
          THEN fn_out.ok /\ BearerOf(fn_out) = "Bearer " \o fn_in.env_key
          ELSE /\ ~fn_out.ok
               /\ fn_out.error.type = "AuthenticationError"
               /\ fn_out.error.status_code = 401
               /\ client = None
               /\ n_requests = 0
    /\ client = None => n_requests = 0

C17_Witness ==
    /\ ClientConstructed
    /\ fn_in.api_key = NoneStr
    /\ fn_in.env_key = NoneStr
    /\ ~fn_out.ok
    /\ client = None

\* The last transport call, whichever it was, failed with GameOverError.
TransportGameOver ==
    /\ last_response # None
    /\ ~last_response.answer.ok
    /\ last_response.answer.error.type = "GameOverError"

\* C18: whenever a transport call of the runner (the resume fetch, the
\* create call or a submit) fails with the game-over classification, the
\* run surfaces it as a returned GameResult carrying that outcome, not as a
\* raised exception.
C18_GameOverSurfacesAsResult ==
    TransportGameOver =>
        /\ pc = "returned"
        /\ raised = None
        /\ returned # None
        /\ returned.outcome = last_response.answer.error.outcome

\* The error carries the game identifier and the turn number.
HasContext(e) == "game" \in DOMAIN e /\ "turn" \in DOMAIN e

\* C19 as stated: every fatal error that leaves the runner has the game
\* identifier and the current turn number attached.
C19_EveryFatalErrorHasContext ==
    pc = "raised" =>
        /\ HasContext(raised)
        /\ raised.game = game_id
        /\ observation # None
        /\ raised.turn = observation.turn

\* The exception a fatal path starts from, when it is not agent_fn's: what
\* on_step raised, else what the last transport call, the sleep after a
\* rate-limit error or the GameResult construction after a game-over error
\* raised.
OriginalError ==
    IF thrown \in CallbackExceptions THEN thrown
    ELSE IF last_response.call = "action"
            /\ last_response.answer.error.type = "RateLimitError"
    THEN [type |-> "ValueError", origin |-> "sleep"]
    ELSE IF last_response.call = "action"
            /\ last_response.answer.error.type = "GameOverError"
    THEN [type |-> "pydantic.ValidationError"]
    ELSE last_response.answer.error

\* C19 amended: a failure of agent_fn leaves the runner as a RuntimeError
\* that names the game identifier and the turn of the current Observation
\* and has the original exception as its cause; every other fatal error
\* (threshold reached, callback failure, transport error) leaves the runner
\* as the original exception, unchanged, with no game identifier or turn
\* attached.
C19_OnlyAgentFailureHasContext ==
    pc = "raised" =>
        IF thrown \in AgentExceptions
        THEN /\ HasContext(raised)
             /\ raised.type = "RuntimeError"
             /\ raised.game = game_id
             /\ raised.turn = observation.turn
             /\ raised.cause = thrown
        ELSE /\ ~HasContext(raised)
             /\ raised = OriginalError

C19_Witness ==
    /\ pc = "raised"
    /\ raised.type = "InvalidActionError"
    /\ n_success = 1
    /\ observation.turn = 2
    /\ max_invalid_actions = 1

\* The Observation slot at the start of the iteration that is running: what
\* agent_fn was last handed, nothing before the loop is entered.
IterationStartObservation == IF n_agent = 0 THEN None ELSE agent_arg

\* C20 as stated: when a fatal error leaves the runner, the Observation slot
\* and the consecutive-invalid counter hold the values they had at the start
\* of the iteration that failed, and the service has accepted no action
\* whose resulting Observation the runner did not store.
C20_NoMutationBeforeFatal ==
    pc = "raised" =>
        /\ observation = IterationStartObservation
        /\ consecutive_invalid = iter_invalid
        /\ n_stored = n_success

\* The run ended because the invalid-action threshold was reached.
ThresholdRaised ==
    /\ pc = "raised"
    /\ thrown = None
    /\ SubmitFailedWith("InvalidActionError")

\* C20 amended: when a fatal error leaves the runner the Observation slot
\* holds the value it had at the start of the failed iteration.  The
\* consecutive-invalid counter holds its value from the start of the
\* iteration, except that it has been incremented (reaching the threshold)
\* when the error is the invalid-action threshold, and reset to zero when the
\* error is a callback failure; in the callback case, and only then, the
\* service has accepted one action whose resulting Observation the runner
\* did not store.
C20_MutationsBeforeFatal ==
    pc = "raised" =>
        /\ observation = IterationStartObservation
        /\ IF thrown \in CallbackExceptions
           THEN /\ consecutive_invalid = 0
                /\ n_stored = n_success - 1
           ELSE IF ThresholdRaised
           THEN /\ consecutive_invalid = iter_invalid + 1
                /\ consecutive_invalid >= max_invalid_actions
                /\ n_stored = n_success
           ELSE /\ consecutive_invalid = iter_invalid
                /\ n_stored = n_success

C20_Witness ==
    /\ pc = "raised"
    /\ thrown \in CallbackExceptions
    /\ iter_invalid = 1
    /\ consecutive_invalid = 0
    /\ n_success = 1
    /\ result.observation # observation

(***************************************************************************)
(* Error taxonomy, modes, sequencing and frame conditions of the loop.     *)
(***************************************************************************)

\* The classified errors the runner has no handler for.
FatalKinds ==
    {"AuthenticationError", "ForbiddenError", "NotFoundError",
     "ValidationError", "CrawlerAPIError"}

\* The last transport call was a submit that failed with one of them.
SubmitFailedFatally ==
    /\ ~LastAnswerOf("action").ok
    /\ LastAnswerOf("action").error.type \in FatalKinds

C21_State ==
    SubmitFailedFatally =>
        /\ pc = "raised"
        /\ raised = LastAnswerOf("action").error
        /\ returned = None

C21_Step ==
    (pc = "submit" /\ SubmitFailedFatally') =>
        /\ pc' = "raised"
        /\ n_sleep' = n_sleep
        /\ n_agent' = n_agent
        /\ n_submit' = n_submit + 1
        /\ n_on_step' = n_on_step
        /\ returned' = None

C21_After ==
    SubmitFailedFatally =>
        /\ n_sleep' = n_sleep
        /\ n_agent' = n_agent
        /\ n_submit' = n_submit
        /\ n_on_step' = n_on_step

\* C21: when a submit fails with an authentication, forbidden, not-found,
\* validation or generic API error, that error leaves the runner at once: no
\* sleep, no further agent_fn call, no further submit, no on_step call and
\* no GameResult.
C21_FatalSubmitPropagatesAtOnce ==
    [](C21_State) /\ [][C21_Step /\ C21_After]_vars

C21_Witness ==
    /\ pc = "raised"
    /\ SubmitFailedWith("NotFoundError")
    /\ on_step_set
    /\ n_success = 1
    /\ n_on_step = 1
    /\ n_submit = 2

FreshMode == game_id_arg = NoneStr

C22_State ==
    FreshMode =>
        /\ n_get = 0
        /\ n_create = (IF pc = "start" THEN 0 ELSE 1)
        /\ n_create = 1 => create_args = [model_id |-> model_id]
        /\ submit_args # None => submit_args.game_id = game_id
        /\ returned # None =>
              /\ returned.game_id = game_id
              /\ returned.spectator_url = spectator_url

C22_Step ==
    FreshMode =>
        /\ (pc = "start" /\ LastAnswerOf("create").ok') =>
              /\ game_id' = LastAnswerOf("create").value.game_id'
              /\ spectator_url' = LastAnswerOf("create").value.spectator_url'
        /\ pc # "start" =>
              /\ game_id' = game_id
              /\ spectator_url' = spectator_url
        /\ (n_agent = 0 /\ n_agent' = 1) =>
              agent_arg' = LastAnswerOf("create").value.observation

\* C22: in fresh mode the runner calls create exactly once, with the given
\* model_id, and never calls get; every submit targets the game id create
\* returned, the first agent_fn call receives the Observation create
\* returned, and a GameResult carries that game id and the spectator URL
\* create returned.
C22_FreshModeDrivesCreatedGame == [](C22_State) /\ [][C22_Step]_vars

C22_Witness ==
    /\ FreshMode
    /\ model_id = "gpt-4o"
    /\ pc = "returned"
    /\ returned.game_id = "game-1"
    /\ returned.spectator_url = "https://crawlerver.se/spectate/game-1"
    /\ n_create = 1
    /\ n_submit = 2

ResumeMode == game_id_arg # NoneStr

C23_State ==
    ResumeMode =>
        /\ n_create = 0
        /\ n_get = (IF pc = "start" THEN 0 ELSE 1)
        /\ submit_args # None => submit_args.game_id = game_id_arg
        /\ returned # None =>
              /\ returned.game_id = game_id_arg
              /\ returned.spectator_url = ""

C23_Step ==
    ResumeMode =>
        /\ (n_agent = 0 /\ n_agent' = 1) =>
              /\ LastAnswerOf("get").ok
              /\ IsInProgress(LastAnswerOf("get").value.outcome)
              /\ agent_arg' = LastAnswerOf("get").value.observation

\* C23: in resume mode with a fetched outcome that is in-progress the runner
\* never calls create, the first agent_fn call receives the fetched
\* Observation, every submit targets the supplied game id, and every
\* GameResult the run returns carries the supplied game id and an empty
\* spectator URL.
C23_ResumeModeDrivesSuppliedGame == [](C23_State) /\ [][C23_Step]_vars

C23_Witness ==
    /\ ResumeMode
    /\ game_id_arg = "existing-game"
    /\ pc = "returned"
    /\ n_get = 1
    /\ n_agent = 2
    /\ n_success = 2
    /\ first_obs = [turn |-> 2]
    /\ returned.spectator_url = ""

C24_State ==
    /\ n_agent - n_submit \in {0, 1}
    /\ n_agent - n_submit = 1 <=>
          \/ pc = "submit"
          \/ pc = "raised" /\ thrown \in AgentExceptions

C24_Step ==
    /\ n_submit' = n_submit + 1 =>
          /\ pc = "submit"
          /\ n_agent = n_submit + 1
          /\ n_agent' = n_agent
          /\ action \in Actions
          /\ submit_args'.action = action
    /\ n_agent' = n_agent + 1 =>
          /\ pc = "decide"
          /\ n_agent = n_submit
          /\ n_submit' = n_submit
          /\ pc' = "submit" => action' \in Actions
    /\ n_submit' \in {n_submit, n_submit + 1}
    /\ n_agent' \in {n_agent, n_agent + 1}

\* C24: agent_fn calls and submits strictly alternate: every submit follows
\* exactly one agent_fn call made after the previous submit's response
\* (success, invalid-action or rate-limit) was fully processed, the action
\* submitted is the one that call returned, and the number of agent_fn calls
\* minus the number of submits is always 0 or 1.
C24_DecideSubmitAlternate == [](C24_State) /\ [][C24_Step]_vars

C24_Witness ==
    /\ pc = "decide"
    /\ n_agent = 3
    /\ n_submit = 3
    /\ n_sleep = 1
    /\ n_success = 1
    /\ consecutive_invalid = 1

C25_Counts ==
    /\ consecutive_invalid = invalid_run
    /\ LastAnswerOf("action").ok => consecutive_invalid = 0

C25_StepBelow ==
    n_agent' = n_agent + 1 => consecutive_invalid < max_invalid_actions

\* C25 as stated: the consecutive-invalid counter equals the number of
\* invalid-action rejections received since the last successful submit (or
\* the start), a successful submit resets it to zero, and whenever agent_fn
\* is called the counter is below max_invalid_actions.
C25_CounterBelowThresholdAtDecision ==
    [](C25_Counts) /\ [][C25_StepBelow]_vars

\* The threshold that takes effect: the first rejection raises for any
\* max_invalid_actions <= 1.
EffectiveThreshold == IF max_invalid_actions < 1 THEN 1 ELSE max_invalid_actions

C25_StepBelowEffective ==
    n_agent' = n_agent + 1 => consecutive_invalid < EffectiveThreshold

\* C25 amended: the counter equals the number of invalid-action rejections
\* received since the last successful submit (or the start) and a
\* successful submit resets it to zero; whenever agent_fn is called the
\* counter is below max_invalid_actions when max_invalid_actions >= 1, and
\* is zero when max_invalid_actions <= 0.
C25_CounterBelowEffectiveThreshold ==
    [](C25_Counts) /\ [][C25_StepBelowEffective]_vars

C25_Witness ==
    /\ max_invalid_actions = 2
    /\ pc = "decide"
    /\ n_submit = 3
    /\ n_success = 1
    /\ n_sleep = 0
    /\ consecutive_invalid = 1
    /\ SubmitFailedWith("InvalidActionError")

\* This step rebinds the Observation slot inside the loop.
SlotRebound ==
    pc # "start" /\ (observation' # observation \/ n_stored' # n_stored)

C26_Step ==
    /\ SlotRebound =>
          /\ pc \in {"submit", "on_step"}
          /\ LastAnswerOf("action").ok'
          /\ observation' = LastAnswerOf("action").value.observation'
          /\ n_stored' = n_success'
    /\ (n_agent' = n_agent + 1 /\ LastAnswerOf("action").ok) =>
          /\ IsInProgress(LastAnswerOf("action").value.outcome)
          /\ agent_arg' = LastAnswerOf("action").value.observation
    /\ (SubmitStepFailedWith("InvalidActionError")
          \/ SubmitStepFailedWith("RateLimitError")
          \/ pc = "sleep"
          \/ thrown' \in CallbackExceptions) => observation' = observation

C26_State ==
    pc = "on_step" => observation = agent_arg

\* C26: inside the loop the Observation slot changes only on a successful
\* submit, where it becomes the Observation of that response: after a
\* successful in-progress submit the next agent_fn call receives exactly the
\* response's Observation, and an invalid-action rejection, a rate-limit
\* response (and its sleep) or an on_step call leave the slot unchanged.
C26_SlotChangesOnlyOnSuccess == [](C26_State) /\ [][C26_Step]_vars

C26_Witness ==
    /\ pc = "submit"
    /\ on_step_set
    /\ n_agent = 3
    /\ n_success = 1
    /\ n_on_step = 1
    /\ SubmitFailedWith("InvalidActionError")
    /\ agent_arg = [turn |-> 2]
    /\ first_obs = [turn |-> 1]

C27_Step ==
    /\ (SubmitStepFailedWith("RateLimitError") \/ pc = "sleep") =>
          /\ consecutive_invalid' = consecutive_invalid
          /\ invalid_run' = invalid_run
    /\ SubmitStepFailedWith("InvalidActionError") =>
          /\ invalid_run' = invalid_run + 1
          /\ consecutive_invalid' = invalid_run'
          /\ IF invalid_run' >= max_invalid_actions
             THEN /\ pc' = "raised"
                  /\ raised' = LastAnswerOf("action").error'
             ELSE pc' = "decide"

\* C27: a rate-limit response neither increments nor resets the
\* consecutive-invalid counter, so rejections separated only by rate-limit
\* responses accumulate: with max_invalid_actions = N, the N-th invalid
\* rejection since the last successful submit makes the runner raise
\* InvalidActionError, however many rate-limit responses lie between.
C27_RateLimitKeepsCounter == [][C27_Step]_vars

C27_Witness ==
    /\ max_invalid_actions = 2
    /\ pc = "raised"
    /\ raised.type = "InvalidActionError"
    /\ n_submit = 3
    /\ n_sleep = 1
    /\ n_success = 0
    /\ consecutive_invalid = 2

\* Every submit of the run so far was answered with a rate-limit error
\* (each one is followed by one sleep), and agent_fn has not raised.
OnlyRateLimited ==
    /\ n_submit > 0
    /\ n_submit = n_sleep + (IF pc = "sleep" THEN 1 ELSE 0)
    /\ thrown = None

\* C28: the runner puts no bound on rate-limit retries: while the service
\* answers every submit with a rate-limit error the runner neither returns
\* nor raises, it keeps sleeping and retrying.
C28_RateLimitedForeverNeverEnds ==
    OnlyRateLimited =>
        /\ pc \in {"sleep", "decide", "submit"}
        /\ returned = None
        /\ raised = None

\* The rate-limit answers whose sleep raises (see C5).
NegativeRetryAfter ==
    /\ SubmitFailedWith("RateLimitError")
    /\ LastAnswerOf("action").error.retry_after < 0

\* The initial call of the run (create, or the resume fetch) failed with a
\* classified error.
InitialCallFailed ==
    /\ last_response # None
    /\ last_response.call \in {"create", "get"}
    /\ ~last_response.answer.ok
    /\ last_response.answer.error.type \in CrawlerAPIErrorKinds

\* C29: the rate-limit and invalid-action recovery applies to submits only:
\* when the create call or the resume fetch fails with a rate-limit error
\* (or any other classified error), that error leaves the runner with no
\* sleep, no retry, no agent_fn call and no submit.
C29_InitialCallErrorPropagates ==
    InitialCallFailed =>
        /\ pc = "raised"
        /\ raised = last_response.answer.error
        /\ returned = None
        /\ n_sleep = 0
        /\ n_get + n_create = 1
        /\ n_agent = 0
        /\ n_submit = 0
        /\ n_on_step = 0

C29_Witness ==
    /\ InitialCallFailed
    /\ runner = "async_run_game"
    /\ last_response.call = "get"
    /\ raised.type = "RateLimitError"
    /\ raised.retry_after = 2
    /\ n_get = 1

\* What the runner `rn` does at the sleep of a rate-limited submit.
SleepStepOf(rn) ==
    LET slept == sleep_of(rn, pending.retry_after) IN
    /\ sleep_arg' = [secs |-> pending.retry_after]
    /\ n_sleep' = n_sleep + 1
    /\ IF slept.ok
       THEN pc' = "decide" /\ raised' = raised
       ELSE pc' = "raised" /\ raised' = slept.error

\* C30: run_game and async_run_game are equivalent: on the same inputs and
\* the same transport responses both make the same operations with the same
\* arguments and end alike.  The runners are the same code but for the sleep
\* call, so this is: every step either runner takes is the step the other
\* runner takes from the same state.
C30_RunnersEquivalent ==
    [][pc = "sleep" => \A rn \in Runners : SleepStepOf(rn)]_vars

====
